---- MODULE Spec2Model ----
(***************************************************************************)
(* Orientation-consensus NEAT experiment: the agent model (agent.py), the  *)
(* environment and simulation driver (consensus_environment.py), the       *)
(* experiment orchestration (consensus_experiment.py) and the network      *)
(* diagram (consensus_visualize.py, draw_net).                             *)
(*                                                                         *)
(* Number representation (exact fixed point, no rounding):                 *)
(*   angles, headings        tenths of a degree      (360 deg = 3600)      *)
(*   angular velocity        hundredths              (3.0     = 300)       *)
(*   network outputs         hundredths              (0.5     = 50)        *)
(*   two-valued messages     thirds                  (1/3 = 1, 1 = 3)      *)
(*   fitness                 numerator over FitDen   (1.0 = FitDen)        *)
(* heading += 10 * angular_vel adds, in tenths of a degree, exactly the    *)
(* angular velocity in hundredths.                                         *)
(* Python sequences are 0-based: outputs[k] of the code is outputs[k+1]    *)
(* here, radar slot k is radar[k+1]; find_radar_index returns the 0-based  *)
(* index, as the code does.                                                *)
(***************************************************************************)
EXTENDS Integers, Sequences, FiniteSets, TLC

VARIABLES
    envs,             \* heap: 0 = trialSim.orig_consensus_environment, 1 = the latest deep copy
    maze_env,         \* the object the running code's env variable refers to (0 or 1)
    evaluate_epochs,  \* the global evaluate_epochs (args.epochs)
    fitness_threshold,\* config.fitness_threshold
    pc,               \* position of the program
    caller,           \* who called consensus_simulation_evaluate: "eval" or "demo"
    net,              \* the control network in use
    robot,            \* loop index of the running for-loop over agent_list (1-based)
    i,                \* number of simulation steps completed in the current trial
    step_result,      \* value returned by the last consensus_simulation_step / consensus_verified
    fitness,          \* value returned by the last consensus_simulation_evaluate
    epochs_fitness,   \* eval_fitness: the list epochs_fitness
    evals,            \* number of eval_fitness calls made by p.run so far
    best,             \* best genome so far: its net and the sum of its epoch results
    solution_found,   \* run_experiment: solution_found
    tries,            \* run_experiment: tries
    last_outputs,     \* the outputs vector of the most recent apply_outputs call
    raw_fitness,      \* env.fitness() of the last trial that exhausted its steps
    consensus_at,     \* step at which consensus_verified() first held in the current trial
    consensus_state,  \* agent_list as it was at that moment
    comm_log,         \* communication(): the update_radar calls of the current step, in call order
    applied,          \* consensus_simulation_step: the robots whose apply_outputs has run in this step
    last_inputs,      \* the inputs vector of the most recent create_net_inputs call
    seed,             \* run_experiment: the seed given to random.seed (NoneVal before the call)
    unseeded_draw,    \* whether the random module was drawn from before random.seed(seed)
    message,          \* the line printed after the demonstration loop
    bearing,          \* argument of the find_radar_index call under test
    radar_index,      \* its result
    robot_orientation_list, \* the trajectory recorder: one heading sequence per agent (NoneVal: none)
    genome,           \* draw_net: genome.connections, each gene a record [key, enabled]
    show_disabled,    \* draw_net: the show_disabled flag
    prune_unused,     \* draw_net: the prune_unused flag
    used_nodes,       \* draw_net: used_nodes
    pending,          \* draw_net: pending
    dot               \* draw_net: the graph built so far, its declared nodes and its edges

vars == << envs, maze_env, evaluate_epochs, fitness_threshold, pc, caller, net, robot, i,
           step_result, fitness, epochs_fitness, evals, best, solution_found, tries,
           last_outputs, raw_fitness, consensus_at, consensus_state, comm_log, applied,
           last_inputs, seed, unseeded_draw, message, bearing, radar_index,
           robot_orientation_list, genome, show_disabled, prune_unused, used_nodes,
           pending, dot >>

\* the variables of draw_net, which no other operation touches
draw_vars == << genome, show_disabled, prune_unused, used_nodes, pending, dot >>

(***************************************************************************)
(* Bounds of the model                                                     *)
(***************************************************************************)
NumAgents == 3      \* N of Environment.__init__
TimeSteps == 2      \* time_steps of consensus_simulation_evaluate
MaxEpochs == 2      \* largest --epochs value considered
MaxEvals == 1       \* eval_fitness calls made by p.run (genomes x generations)

(***************************************************************************)
(* Program constants                                                       *)
(***************************************************************************)
NoneVal == -1                 \* Python None (every real value stored is >= 0)
MAX_ANGULAR_VEL == 300        \* 3.0
CommRange == 80               \* communication(): distance <= 80
ConsensusTolerance == 50      \* consensus_verified(): < 5 degrees
Full == 3600                  \* 360 degrees
OutputOffset == 50            \* outputs[1] - 0.5, outputs[0] < 0.5

Min(S) == CHOOSE x \in S : \A y \in S : x <= y
Max(S) == CHOOSE x \in S : \A y \in S : x >= y
Abs(x) == IF x < 0 THEN -x ELSE x

(***************************************************************************)
(* geometry (module geometry is imported by the sources)                   *)
(***************************************************************************)
\* Point.angle(): polar angle in [0, 360) of the vector (x, y); the placements
\* of the model only produce axis-parallel and diagonal vectors.
PointAngle(x, y) ==
    CASE x > 0 /\ y = 0  -> 0
      [] x > 0 /\ y = x  -> 450
      [] x = 0 /\ y > 0  -> 900
      [] x < 0 /\ y = -x -> 1350
      [] x < 0 /\ y = 0  -> 1800
      [] x < 0 /\ y = x  -> 2250
      [] x = 0 /\ y < 0  -> 2700
      [] x > 0 /\ y = -x -> 3150
      [] x = 0 /\ y = 0  -> 0

\* Point.distance(other) <= d, decided on the squared distance
WithinDistance(p, q, d) ==
    (p.x - q.x) * (p.x - q.x) + (p.y - q.y) * (p.y - q.y) <= d * d

(***************************************************************************)
(* agent.py                                                                *)
(***************************************************************************)
radar_angle ==
    << <<3450, 3750>>, <<150, 450>>, <<450, 900>>, <<900, 1500>>,
       <<1500, 2100>>, <<2100, 2700>>, <<2700, 3150>>, <<3150, 3450>> >>

\* radar_position = [0.0] + midpoints of sectors 1..7
radar_position ==
    [k \in 1..Len(radar_angle) |->
        IF k = 1 THEN 0 ELSE (radar_angle[k][1] + radar_angle[k][2]) \div 2]

Agent_keeping_mode(location, agent_id, heading, angular_vel, mode) ==
    [ agent_id    |-> agent_id,
      heading     |-> heading,
      angular_vel |-> angular_vel,
      location    |-> location,
      mode        |-> mode,
      msg_rcv_1   |-> NoneVal,
      msg_rcv_2   |-> NoneVal,
      msg_sen_1   |-> 0,
      msg_sen_2   |-> 0,
      radar       |-> [k \in 1..Len(radar_angle) |-> NoneVal] ]

\* Agent.__init__: the mode argument is ignored, self.mode = 1
Agent(location, agent_id, heading, angular_vel, mode) ==
    [ agent_id    |-> agent_id,
      heading     |-> heading,
      angular_vel |-> angular_vel,
      location    |-> location,
      mode        |-> 1,
      msg_rcv_1   |-> NoneVal,
      msg_rcv_2   |-> NoneVal,
      msg_sen_1   |-> 0,
      msg_sen_2   |-> 0,
      radar       |-> [k \in 1..Len(radar_angle) |-> NoneVal] ]

\* find_radar_index: first sector strictly containing the angle, else 0
find_radar_index_inclusive(angle) ==
    LET hits == { k \in 1..Len(radar_angle) :
                    angle >= radar_angle[k][1] /\ angle <= radar_angle[k][2] }
    IN  IF hits = {} THEN 0 ELSE Min(hits) - 1

find_radar_index(angle) ==
    LET hits == { k \in 1..Len(radar_angle) :
                    angle > radar_angle[k][1] /\ angle < radar_angle[k][2] }
    IN  IF hits = {} THEN 0 ELSE Min(hits) - 1

\* calculate_msg_to: the sender's sector bearing towards aimed_robot
calculate_msg_to(self, aimed_robot) ==
    LET angle == PointAngle(aimed_robot.location.x - self.location.x,
                            aimed_robot.location.y - self.location.y)
        rel   == angle - self.heading
        rel_angle == IF rel < 0 THEN rel + Full
                     ELSE IF rel > Full THEN rel - Full ELSE rel
    IN  radar_position[find_radar_index(rel_angle) + 1]

\* "Initializing radar list": for radar in self.radar: radar = None
\* rebinds the loop variable only; the list is left as it was.
reset_radar(radar) == radar

\* update_radar: vect = self - sender, rel_angle = self.heading - vect.angle()
rel_angle(self, sender) ==
    self.heading - PointAngle(self.location.x - sender.location.x,
                              self.location.y - sender.location.y)

radar_left_unwritten(self, sender) == reset_radar(self.radar)

\* update_radar, the radar part
radar_after_update(self, sender) ==
    [reset_radar(self.radar) EXCEPT
        ![find_radar_index(rel_angle(self, sender)) + 1] = calculate_msg_to(sender, self)]

update_radar_always_relaying(self, sender) ==
    [self EXCEPT !.radar = radar_after_update(self, sender),
                 !.msg_rcv_1 = sender.msg_rcv_1,
                 !.msg_rcv_2 = sender.msg_rcv_2]

\* update_radar: the receiver after the call (the sender is only read)
update_radar_modes_swapped(self, sender) ==
    LET r == [self EXCEPT !.radar = radar_after_update(self, sender)]
    IN  IF sender.mode = 1
        THEN [r EXCEPT !.msg_rcv_1 = sender.msg_rcv_1, !.msg_rcv_2 = sender.msg_rcv_2]
        ELSE IF sender.mode = 0
        THEN [r EXCEPT !.msg_rcv_1 = sender.msg_sen_1, !.msg_rcv_2 = sender.msg_sen_2]
        ELSE r

update_radar(self, sender) ==
    LET r == [self EXCEPT !.radar = radar_after_update(self, sender)]
    IN  IF sender.mode = 0
        THEN [r EXCEPT !.msg_rcv_1 = sender.msg_rcv_1, !.msg_rcv_2 = sender.msg_rcv_2]
        ELSE IF sender.mode = 1
        THEN [r EXCEPT !.msg_rcv_1 = sender.msg_sen_1, !.msg_rcv_2 = sender.msg_sen_2]
        ELSE r

\* apply_outputs: mode
new_mode(outputs) == IF outputs[1] < OutputOffset THEN 0 ELSE 1

\* apply_outputs: angular velocity
clamp_angular_vel_no_upper(outputs) ==
    LET new_ang_vel == outputs[2] - OutputOffset
    IN  IF new_ang_vel < -MAX_ANGULAR_VEL THEN -MAX_ANGULAR_VEL ELSE new_ang_vel

clamp_angular_vel(outputs) ==
    LET new_ang_vel == outputs[2] - OutputOffset
    IN  IF new_ang_vel >= MAX_ANGULAR_VEL THEN MAX_ANGULAR_VEL
        ELSE IF new_ang_vel < -MAX_ANGULAR_VEL THEN -MAX_ANGULAR_VEL
        ELSE new_ang_vel

\* apply_outputs: heading
new_heading_no_upper_wrap(heading, angular_vel) ==
    LET h == heading + angular_vel     \* heading += 10 * angular_vel
    IN  IF h < 0 THEN h + Full ELSE h

new_heading(heading, angular_vel) ==
    LET h == heading + angular_vel     \* heading += 10 * angular_vel
    IN  IF h < 0 THEN h + Full
        ELSE IF h >= Full THEN h - Full
        ELSE h

\* apply_outputs: the four-bin quantizer (x < 1/6, x < 3/6, x < 5/6), in thirds
quantize_inclusive(x) ==
    IF 6 * x <= 100 THEN 0
    ELSE IF 6 * x <= 300 THEN 1
    ELSE IF 6 * x <= 500 THEN 2
    ELSE 3

quantize(x) ==
    IF 6 * x < 100 THEN 0
    ELSE IF 6 * x < 300 THEN 1
    ELSE IF 6 * x < 500 THEN 2
    ELSE 3

apply_outputs_clearing_radar(self, outputs) ==
    LET av == clamp_angular_vel(outputs)
    IN  [self EXCEPT !.mode        = new_mode(outputs),
                     !.angular_vel = av,
                     !.heading     = new_heading(self.heading, av),
                     !.msg_sen_1   = quantize(outputs[3]),
                     !.msg_sen_2   = quantize(outputs[4]),
                     !.radar       = [k \in 1..Len(radar_angle) |-> NoneVal]]

apply_outputs(self, outputs) ==
    LET av == clamp_angular_vel(outputs)
    IN  [self EXCEPT !.mode        = new_mode(outputs),
                     !.angular_vel = av,
                     !.heading     = new_heading(self.heading, av),
                     !.msg_sen_1   = quantize(outputs[3]),
                     !.msg_sen_2   = quantize(outputs[4])]

\* individual_fitness, as a numerator over 1800 * 100:
\* (1 - min_term / pi) * (1 - |angular_vel|)
individual_fitness(self, avg_heading) ==
    LET abs_term == Abs(self.heading - avg_heading)
        min_term == IF Full - abs_term < abs_term THEN Full - abs_term ELSE abs_term
    IN  ((Full \div 2) - min_term) * (100 - Abs(self.angular_vel))

(***************************************************************************)
(* consensus_environment.py                                                *)
(***************************************************************************)
\* Environment.__init__: agent i at locations[i+1] with headings[i+1], angular_vel 0
Environment(locations, headings) ==
    [k \in 1..Len(locations) |-> Agent(locations[k], k - 1, headings[k], 0, 1)]

\* communication(): robots_in_range of the robot at position r, as list positions
robots_in_range_with_self(agent_list, r) ==
    SelectSeq([k \in 1..Len(agent_list) |-> k],
              LAMBDA k : WithinDistance(agent_list[r].location,
                                        agent_list[k].location, CommRange))

robots_in_range(agent_list, r) ==
    SelectSeq([k \in 1..Len(agent_list) |-> k],
              LAMBDA k : /\ agent_list[k].agent_id # agent_list[r].agent_id
                         /\ WithinDistance(agent_list[r].location,
                                           agent_list[k].location, CommRange))

\* consensus_verified(): the min/max scan and the comparison
RECURSIVE MinMaxScan(_, _, _, _)
MinMaxScan(agent_list, k, min_heading, max_heading) ==
    IF k > Len(agent_list) THEN << min_heading, max_heading >>
    ELSE LET h == agent_list[k].heading
         IN  IF h < min_heading THEN MinMaxScan(agent_list, k + 1, h, max_heading)
             ELSE IF h > max_heading THEN MinMaxScan(agent_list, k + 1, min_heading, h)
             ELSE MinMaxScan(agent_list, k + 1, min_heading, max_heading)

consensus_verified_circular(agent_list) ==
    LET mm == MinMaxScan(agent_list, 1, agent_list[1].heading, agent_list[1].heading)
        d  == mm[2] - mm[1]
    IN  (IF Full - d < d THEN Full - d ELSE d) < ConsensusTolerance

consensus_verified(agent_list) ==
    LET mm == MinMaxScan(agent_list, 1, agent_list[1].heading, agent_list[1].heading)
    IN  mm[2] - mm[1] < ConsensusTolerance

\* avg_heading(): the angle of the sum of the heading unit vectors, an angle in
\* [0, 360); the model takes any angle of a grid for it.
avg_heading_values == { 0, Full \div 2 }

\* fitness(): (1/R) * sum of individual_fitness, as a numerator over FitDen
RECURSIVE SumFitness(_, _, _)
SumFitness(agent_list, k, avg_heading) ==
    IF k > Len(agent_list) THEN 0
    ELSE individual_fitness(agent_list[k], avg_heading)
         + SumFitness(agent_list, k + 1, avg_heading)

env_fitness(agent_list, avg_heading) == SumFitness(agent_list, 1, avg_heading)

FitDen == (Full \div 2) * 100 * NumAgents     \* fitness 1.0

\* create_net_inputs: the first occupied radar slot in sector order; the vector
\* [mode, angle_of_reception/360, angle_of_emission/360, msg_rcv_1, msg_rcv_2],
\* the two angles kept in tenths of a degree
HasSignal(self) == \E k \in 1..Len(self.radar) : self.radar[k] # NoneVal

create_net_inputs(self) ==
    LET k == Min({ j \in 1..Len(self.radar) : self.radar[j] # NoneVal })
    IN  << self.mode, radar_position[k], self.radar[k], self.msg_rcv_1, self.msg_rcv_2 >>

(***************************************************************************)
(* The control network (neat.nn, external): net.activate(inputs).          *)
(* Three networks stand for the genomes of the search:                     *)
(*   1  constant: emission mode, turn 2 degrees per step                   *)
(*   2  constant: relay mode, angular velocity candidate 5.0               *)
(*   3  input driven: emits and turns 2 degrees when the message arrived   *)
(*      in a sector of bearing below 180, relays otherwise; emits its      *)
(*      previous mode and re-emits the first held message                  *)
(***************************************************************************)
Nets == 1..3

Activate(n, inputs) ==
    CASE n = 1 -> << 100, 70, 20, 90 >>
      [] n = 2 -> << 0, 550, 50, 0 >>
      [] n = 3 -> << IF inputs[2] < 1800 THEN 100 ELSE 0,
                     IF inputs[2] < 1800 THEN 70 ELSE 50,
                     100 * inputs[1],
                     33 * inputs[4] >>

(***************************************************************************)
(* consensus_environment.py: the simulation driver                         *)
(***************************************************************************)
agent_list == envs[maze_env]

StartTrial(c) ==
    /\ pc' = "communication"
    /\ caller' = c
    /\ i' = 0
    /\ robot' = 1
    /\ consensus_at' = 0
    /\ consensus_state' = << >>
    /\ raw_fitness' = << >>

CommunicationFromSnapshot ==
    /\ pc = "communication"
    /\ LET in_range == robots_in_range(agent_list, robot)
       IN  IF in_range = << >>
           THEN /\ pc' = "aborted"
                /\ UNCHANGED << envs, robot, comm_log >>
           ELSE /\ \E random_id \in 1..Len(in_range) :
                      LET chosen == in_range[random_id]
                          selected_robot ==
                              IF chosen <= Len(comm_log)
                              THEN [agent_list[chosen] EXCEPT
                                       !.msg_rcv_1 = comm_log[chosen].held[1],
                                       !.msg_rcv_2 = comm_log[chosen].held[2]]
                              ELSE agent_list[chosen]
                      IN  /\ envs' = [envs EXCEPT ![maze_env][robot] =
                                         update_radar(@, selected_robot)]
                          /\ comm_log' = Append(comm_log,
                                 [ receiver |-> robot,
                                   sender   |-> in_range[random_id],
                                   slot     |-> find_radar_index(
                                                   rel_angle(agent_list[robot], selected_robot)),
                                   value    |-> calculate_msg_to(selected_robot,
                                                                 agent_list[robot]),
                                   held     |-> << agent_list[robot].msg_rcv_1,
                                                   agent_list[robot].msg_rcv_2 >> ])
                /\ IF robot < Len(agent_list)
                   THEN robot' = robot + 1 /\ pc' = pc
                   ELSE robot' = 1 /\ pc' = "agents"
    \* random.randint draws from the random module
    /\ unseeded_draw' = (unseeded_draw \/ seed = NoneVal)
    /\ UNCHANGED << maze_env, evaluate_epochs, fitness_threshold, caller, net, i,
                    step_result, fitness, epochs_fitness, evals, best, solution_found,
                    tries, last_outputs, raw_fitness, consensus_at, consensus_state >>
    /\ UNCHANGED << applied, last_inputs, seed, message, bearing, radar_index >>
    /\ UNCHANGED draw_vars
    /\ UNCHANGED robot_orientation_list

\* communication(): one iteration of "for robot in self.agent_list".
\* random.randint(0, -1) raises ValueError when robots_in_range is empty;
\* nothing up to __main__ catches it.
Communication ==
    /\ pc = "communication"
    /\ LET in_range == robots_in_range(agent_list, robot)
       IN  IF in_range = << >>
           THEN /\ pc' = "aborted"
                /\ UNCHANGED << envs, robot, comm_log >>
           ELSE /\ \E random_id \in 1..Len(in_range) :
                      LET selected_robot == agent_list[in_range[random_id]]
                      IN  /\ envs' = [envs EXCEPT ![maze_env][robot] =
                                         update_radar(@, selected_robot)]
                          /\ comm_log' = Append(comm_log,
                                 [ receiver |-> robot,
                                   sender   |-> in_range[random_id],
                                   slot     |-> find_radar_index(
                                                   rel_angle(agent_list[robot], selected_robot)),
                                   value    |-> calculate_msg_to(selected_robot,
                                                                 agent_list[robot]),
                                   held     |-> << agent_list[robot].msg_rcv_1,
                                                   agent_list[robot].msg_rcv_2 >> ])
                /\ IF robot < Len(agent_list)
                   THEN robot' = robot + 1 /\ pc' = pc
                   ELSE robot' = 1 /\ pc' = "agents"
    \* random.randint draws from the random module
    /\ unseeded_draw' = (unseeded_draw \/ seed = NoneVal)
    /\ UNCHANGED << maze_env, evaluate_epochs, fitness_threshold, caller, net, i,
                    step_result, fitness, epochs_fitness, evals, best, solution_found,
                    tries, last_outputs, raw_fitness, consensus_at, consensus_state >>
    /\ UNCHANGED << applied, last_inputs, seed, message, bearing, radar_index >>
    /\ UNCHANGED draw_vars
    /\ UNCHANGED robot_orientation_list

\* consensus_simulation_evaluate: "robot_orientation_list = None", no recorder supplied
NoRecorder == << >>

\* run_experiment: "[[] for i in range(len(consensus_env.agent_list))]"
new_recorder(agents) == [ k \in 1..Len(agents) |-> << >> ]

record_into_first(recorder, k, heading) ==
    [ recorder EXCEPT ![1] = Append(@, heading) ]

\* consensus_simulation_step: "robot_orientation_list[i].append(robot.heading)"
\* under "if robot_orientation_list != None"
record(recorder, k, heading) ==
    IF recorder # NoRecorder
    THEN [ recorder EXCEPT ![k] = Append(@, heading) ]
    ELSE recorder

\* consensus_simulation_step: one iteration of "for i, robot in enumerate(env.agent_list)".
\* create_net_inputs raises UnboundLocalError when no radar slot is occupied.
AgentStepReturnsInLoop ==
    /\ pc = "agents"
    /\ IF ~HasSignal(agent_list[robot])
       THEN /\ pc' = "aborted"
            /\ UNCHANGED << envs, robot, last_outputs, last_inputs, applied,
                            robot_orientation_list >>
       ELSE LET inputs == create_net_inputs(agent_list[robot])
                output == Activate(net, inputs)
            IN  /\ envs' = [envs EXCEPT ![maze_env][robot] = apply_outputs(@, output)]
                /\ last_inputs' = inputs
                /\ last_outputs' = output
                /\ applied' = Append(applied, robot)
                /\ robot_orientation_list' =
                       record(robot_orientation_list, robot, envs'[maze_env][robot].heading)
                /\ robot' = 1 /\ pc' = "verify"
    /\ UNCHANGED << maze_env, evaluate_epochs, fitness_threshold, caller, net, i,
                    step_result, fitness, epochs_fitness, evals, best, solution_found,
                    tries, raw_fitness, consensus_at, consensus_state >>
    /\ UNCHANGED << comm_log, seed, unseeded_draw, message, bearing, radar_index >>
    /\ UNCHANGED draw_vars

AgentStep ==
    /\ pc = "agents"
    /\ IF ~HasSignal(agent_list[robot])
       THEN /\ pc' = "aborted"
            /\ UNCHANGED << envs, robot, last_outputs, last_inputs, applied,
                            robot_orientation_list >>
       ELSE LET inputs == create_net_inputs(agent_list[robot])
                output == Activate(net, inputs)
            IN  /\ envs' = [envs EXCEPT ![maze_env][robot] = apply_outputs(@, output)]
                /\ last_inputs' = inputs
                /\ last_outputs' = output
                /\ applied' = Append(applied, robot)
                /\ robot_orientation_list' =
                       record(robot_orientation_list, robot, envs'[maze_env][robot].heading)
                /\ IF robot < Len(agent_list)
                   THEN robot' = robot + 1 /\ pc' = pc
                   ELSE robot' = 1 /\ pc' = "verify"
    /\ UNCHANGED << maze_env, evaluate_epochs, fitness_threshold, caller, net, i,
                    step_result, fitness, epochs_fitness, evals, best, solution_found,
                    tries, raw_fitness, consensus_at, consensus_state >>
    /\ UNCHANGED << comm_log, seed, unseeded_draw, message, bearing, radar_index >>
    /\ UNCHANGED draw_vars

\* consensus_simulation_step: return env.consensus_verified()
StepReturn ==
    /\ pc = "verify"
    /\ step_result' = consensus_verified(agent_list)
    /\ i' = i + 1
    /\ IF consensus_verified(agent_list) /\ consensus_at = 0
       THEN consensus_at' = i + 1 /\ consensus_state' = agent_list
       ELSE UNCHANGED << consensus_at, consensus_state >>
    /\ pc' = "evaluate"
    \* the locals of communication() and of the step are gone
    /\ comm_log' = << >>
    /\ applied' = << >>
    /\ last_inputs' = << >>
    /\ UNCHANGED << envs, maze_env, evaluate_epochs, fitness_threshold, caller, net, robot,
                    fitness, epochs_fitness, evals, best, solution_found, tries,
                    last_outputs, raw_fitness >>
    /\ UNCHANGED << seed, unseeded_draw, message, bearing, radar_index >>
    /\ UNCHANGED draw_vars
    /\ UNCHANGED robot_orientation_list

\* consensus_simulation_evaluate: the floor applied to env.fitness()
trial_fitness_no_floor(f) == f

trial_fitness(f) == IF 100 * f <= FitDen THEN FitDen \div 100 ELSE f

\* consensus_simulation_evaluate: after a step has returned
EvaluateIgnoringConsensus ==
    /\ pc = "evaluate"
    /\ IF i < TimeSteps
       THEN /\ pc' = "communication"
            /\ UNCHANGED << fitness, raw_fitness >>
       ELSE /\ \E avg_heading \in avg_heading_values :
                 /\ raw_fitness' = << env_fitness(agent_list, avg_heading) >>
                 /\ fitness' = trial_fitness(env_fitness(agent_list, avg_heading))
            /\ pc' = "trial_return"
    /\ UNCHANGED << envs, maze_env, evaluate_epochs, fitness_threshold, caller, net, robot,
                    i, step_result, epochs_fitness, evals, best, solution_found, tries,
                    last_outputs, consensus_at, consensus_state >>
    /\ UNCHANGED << comm_log, applied, last_inputs, seed, unseeded_draw, message,
                    bearing, radar_index >>
    /\ UNCHANGED draw_vars
    /\ UNCHANGED robot_orientation_list

Evaluate ==
    /\ pc = "evaluate"
    /\ IF step_result
       THEN /\ fitness' = FitDen
            /\ pc' = "trial_return"
            /\ UNCHANGED raw_fitness
       ELSE IF i < TimeSteps
       THEN /\ pc' = "communication"
            /\ UNCHANGED << fitness, raw_fitness >>
       ELSE /\ \E avg_heading \in avg_heading_values :
                 /\ raw_fitness' = << env_fitness(agent_list, avg_heading) >>
                 /\ fitness' = trial_fitness(env_fitness(agent_list, avg_heading))
            /\ pc' = "trial_return"
    /\ UNCHANGED << envs, maze_env, evaluate_epochs, fitness_threshold, caller, net, robot,
                    i, step_result, epochs_fitness, evals, best, solution_found, tries,
                    last_outputs, consensus_at, consensus_state >>
    /\ UNCHANGED << comm_log, applied, last_inputs, seed, unseeded_draw, message,
                    bearing, radar_index >>
    /\ UNCHANGED draw_vars
    /\ UNCHANGED robot_orientation_list

(***************************************************************************)
(* consensus_experiment.py                                                 *)
(***************************************************************************)
RECURSIVE SumSeq(_)
SumSeq(s) == IF s = << >> THEN 0 ELSE Head(s) + SumSeq(Tail(s))

\* copy.deepcopy(trialSim.orig_consensus_environment): a new object holding a
\* copy of the original's agents, and the reference to it
copy_reference(heap) == [ heap |-> heap, ref |-> 0 ]

deepcopy(heap) == [ heap |-> [heap EXCEPT ![1] = heap[0]], ref |-> 1 ]

\* eval_fitness, called by eval_genomes for a genome: the copy and the network
EvalFitness ==
    /\ pc = "run"
    /\ evals < MaxEvals
    /\ envs' = deepcopy(envs).heap
    /\ maze_env' = deepcopy(envs).ref
    /\ net' \in Nets
    /\ epochs_fitness' = << >>
    /\ evals' = evals + 1
    /\ pc' = "eval_loop"
    /\ UNCHANGED << evaluate_epochs, fitness_threshold, caller, robot, i, step_result,
                    fitness, best, solution_found, tries, last_outputs, raw_fitness,
                    consensus_at, consensus_state >>
    /\ UNCHANGED << comm_log, applied, last_inputs, seed, unseeded_draw, message,
                    bearing, radar_index >>
    /\ UNCHANGED draw_vars
    /\ UNCHANGED robot_orientation_list

\* eval_fitness: "for i in range(evaluate_epochs)" calls consensus_simulation_evaluate
\* on maze_env
EvalEpoch ==
    /\ pc = "eval_loop"
    /\ Len(epochs_fitness) < evaluate_epochs
    /\ StartTrial("eval")
    /\ UNCHANGED << envs, maze_env, evaluate_epochs, fitness_threshold, net, step_result,
                    fitness, epochs_fitness, evals, best, solution_found, tries,
                    last_outputs >>
    /\ UNCHANGED << comm_log, applied, last_inputs, seed, unseeded_draw, message,
                    bearing, radar_index >>
    /\ UNCHANGED draw_vars
    /\ UNCHANGED robot_orientation_list

\* eval_fitness returns the mean (nan for an empty list, kept as NoneVal); the
\* population keeps the genome of greatest fitness
EvalFitnessReturn ==
    /\ pc = "eval_loop"
    /\ Len(epochs_fitness) >= evaluate_epochs
    /\ LET total == IF evaluate_epochs = 0 THEN NoneVal ELSE SumSeq(epochs_fitness)
       IN  best' = IF best.net = 0 \/ (total # NoneVal /\ best.sum # NoneVal
                                         /\ total > best.sum)
                   THEN [ net |-> net, sum |-> total ]
                   ELSE best
    \* maze_env, control_net and epochs_fitness are locals: the copy is garbage
    /\ envs' = [envs EXCEPT ![1] = << >>]
    /\ maze_env' = 0
    /\ net' = 0
    /\ epochs_fitness' = << >>
    /\ pc' = "run"
    /\ UNCHANGED << evaluate_epochs, fitness_threshold, caller, robot,
                    i, step_result, fitness, evals, solution_found, tries,
                    last_outputs, raw_fitness, consensus_at, consensus_state >>
    /\ UNCHANGED << comm_log, applied, last_inputs, seed, unseeded_draw, message,
                    bearing, radar_index >>
    /\ UNCHANGED draw_vars
    /\ UNCHANGED robot_orientation_list

\* consensus_simulation_evaluate returns to its caller
TrialReturn ==
    /\ pc = "trial_return"
    /\ IF caller = "eval"
       THEN /\ epochs_fitness' = Append(epochs_fitness, fitness)
            /\ fitness' = NoneVal
            /\ pc' = "eval_loop"
            /\ UNCHANGED tries
       ELSE IF caller = "demo"
       THEN /\ pc' = "demo_while"
            /\ UNCHANGED << epochs_fitness, fitness, tries >>
       ELSE /\ tries' = tries + 1
            /\ pc' = "demo_while"
            /\ UNCHANGED << epochs_fitness, fitness >>
    \* the locals of consensus_simulation_evaluate and of the step are gone
    /\ i' = 0
    /\ robot' = 1
    /\ step_result' = FALSE
    /\ last_outputs' = << >>
    /\ raw_fitness' = << >>
    /\ consensus_at' = 0
    /\ consensus_state' = << >>
    /\ UNCHANGED << envs, maze_env, evaluate_epochs, fitness_threshold, caller, net,
                    evals, best, solution_found >>
    /\ UNCHANGED << comm_log, applied, last_inputs, seed, unseeded_draw, message,
                    bearing, radar_index >>
    /\ UNCHANGED draw_vars
    /\ UNCHANGED robot_orientation_list

\* run_experiment: p.run returns the best genome; solution_found; the copy for
\* the demonstration; the first demonstration trial when a solution was found
RunReturns ==
    /\ pc = "run"
    /\ evals >= 1
    /\ LET found == best.sum # NoneVal /\ best.sum >= fitness_threshold * evaluate_epochs
       IN  /\ solution_found' = found
           /\ envs' = deepcopy(envs).heap
           /\ maze_env' = deepcopy(envs).ref
           /\ net' = best.net
           /\ robot_orientation_list' = new_recorder(envs'[maze_env'])
           /\ tries' = 0
           /\ IF found
              THEN StartTrial("demo")
              ELSE /\ pc' = "done"
                   /\ UNCHANGED << caller, i, robot, consensus_at, consensus_state,
                                   raw_fitness >>
    /\ UNCHANGED << evaluate_epochs, fitness_threshold, step_result, fitness,
                    epochs_fitness, evals, best, last_outputs >>
    /\ UNCHANGED << comm_log, applied, last_inputs, seed, unseeded_draw, message,
                    bearing, radar_index >>
    /\ UNCHANGED draw_vars

\* run_experiment: "while tries<evaluate_epochs and fitness < config.fitness_threshold"
DemoRetryUnbounded ==
    /\ pc = "demo_while"
    /\ fitness < fitness_threshold
    /\ robot_orientation_list' = new_recorder(agent_list)
    /\ StartTrial("retry")
    /\ UNCHANGED << envs, maze_env, evaluate_epochs, fitness_threshold, net, step_result,
                    fitness, epochs_fitness, evals, best, solution_found, tries,
                    last_outputs >>
    /\ UNCHANGED << comm_log, applied, last_inputs, seed, unseeded_draw, message,
                    bearing, radar_index >>
    /\ UNCHANGED draw_vars

DemoRetry ==
    /\ pc = "demo_while"
    /\ tries < evaluate_epochs /\ fitness < fitness_threshold
    /\ robot_orientation_list' = new_recorder(agent_list)
    /\ StartTrial("retry")
    /\ UNCHANGED << envs, maze_env, evaluate_epochs, fitness_threshold, net, step_result,
                    fitness, epochs_fitness, evals, best, solution_found, tries,
                    last_outputs >>
    /\ UNCHANGED << comm_log, applied, last_inputs, seed, unseeded_draw, message,
                    bearing, radar_index >>
    /\ UNCHANGED draw_vars

\* run_experiment: the loop is left; "if tries<evaluate_epochs" chooses the line printed
DemoEnd ==
    /\ pc = "demo_while"
    /\ ~(tries < evaluate_epochs /\ fitness < fitness_threshold)
    /\ message' = IF tries < evaluate_epochs
                  THEN "Successful run found"
                  ELSE "No successful run was found"
    /\ pc' = "done"
    /\ UNCHANGED << envs, maze_env, evaluate_epochs, fitness_threshold, caller, net, robot,
                    i, step_result, fitness, epochs_fitness, evals, best, solution_found,
                    tries, last_outputs, raw_fitness, consensus_at, consensus_state >>
    /\ UNCHANGED << comm_log, applied, last_inputs, seed, unseeded_draw, bearing, radar_index >>
    /\ UNCHANGED draw_vars
    /\ UNCHANGED robot_orientation_list

(***************************************************************************)
(* The experiment: __main__ has parsed its arguments, set evaluate_epochs  *)
(* and cleared the output directory; it is about to build the environment. *)
(***************************************************************************)
\* placements drawn by Environment.__init__ in the 100 x 100 field: the second
\* agent within 80 of every other, the others only within 80 of it
LocationsStar ==
    << [x |-> 0, y |-> 0], [x |-> 45, y |-> 45], [x |-> 90, y |-> 90],
       [x |-> 0, y |-> 90] >>

\* a placement where the second agent is further than 80 from every other
LocationsIsolated ==
    << [x |-> 0, y |-> 0], [x |-> 95, y |-> 0], [x |-> 0, y |-> 10],
       [x |-> 10, y |-> 0] >>

HeadingsNearWrap == << 3560, 3580, 0, 3570 >>
HeadingsSpread == << 100, 1900, 2750, 40 >>

Placements == { SubSeq(LocationsStar, 1, NumAgents), SubSeq(LocationsIsolated, 1, NumAgents) }
InitialHeadings == { SubSeq(HeadingsNearWrap, 1, NumAgents), SubSeq(HeadingsSpread, 1, NumAgents) }
\* config.fitness_threshold: 0.5
Thresholds == { FitDen \div 2 }

InitRest ==
    /\ maze_env = 0
    /\ caller = "none"
    /\ net = 0
    /\ robot = 1
    /\ i = 0
    /\ step_result = FALSE
    /\ fitness = NoneVal
    /\ epochs_fitness = << >>
    /\ evals = 0
    /\ best = [ net |-> 0, sum |-> NoneVal ]
    /\ solution_found = FALSE
    /\ tries = 0
    /\ last_outputs = << >>
    /\ raw_fitness = << >>
    /\ consensus_at = 0
    /\ consensus_state = << >>
    /\ comm_log = << >>
    /\ applied = << >>
    /\ last_inputs = << >>
    /\ seed = NoneVal
    /\ unseeded_draw = FALSE
    /\ message = ""
    /\ bearing = NoneVal
    /\ radar_index = NoneVal
    /\ robot_orientation_list = NoRecorder

\* draw_net has not been called
InitDrawIdle ==
    /\ genome = {}
    /\ show_disabled = FALSE
    /\ prune_unused = FALSE
    /\ used_nodes = {}
    /\ pending = {}
    /\ dot = [ nodes |-> {}, edges |-> {} ]

Init ==
    /\ envs = [ e \in {0, 1} |-> << >> ]
    /\ evaluate_epochs \in 0..MaxEpochs
    /\ fitness_threshold \in Thresholds
    /\ pc = "main"
    /\ InitRest
    /\ InitDrawIdle

\* __main__: consensus_env = env.Environment(); Environment.__init__ draws the
\* locations and the headings with random.random()
NewEnvironment ==
    /\ pc = "main"
    /\ \E locations \in Placements, headings \in InitialHeadings :
          envs' = [envs EXCEPT ![0] = Environment(locations, headings)]
    /\ unseeded_draw' = (unseeded_draw \/ seed = NoneVal)
    /\ pc' = "run_experiment"
    /\ UNCHANGED << maze_env, evaluate_epochs, fitness_threshold, caller, net, robot, i,
                    step_result, fitness, epochs_fitness, evals, best, solution_found,
                    tries, last_outputs, raw_fitness, consensus_at, consensus_state >>
    /\ UNCHANGED << comm_log, applied, last_inputs, seed, message, bearing, radar_index >>
    /\ UNCHANGED draw_vars
    /\ UNCHANGED robot_orientation_list

\* run_experiment: seed = int(time.time()); random.seed(seed); the seed is a
\* non-negative integer, here 1
SeedRandom ==
    /\ pc = "run_experiment"
    /\ seed' = 1
    /\ pc' = "run"
    /\ UNCHANGED << envs, maze_env, evaluate_epochs, fitness_threshold, caller, net, robot,
                    i, step_result, fitness, epochs_fitness, evals, best, solution_found,
                    tries, last_outputs, raw_fitness, consensus_at, consensus_state >>
    /\ UNCHANGED << comm_log, applied, last_inputs, unseeded_draw, message, bearing,
                    radar_index >>
    /\ UNCHANGED draw_vars
    /\ UNCHANGED robot_orientation_list

Next ==
    \/ NewEnvironment
    \/ SeedRandom
    \/ EvalFitness
    \/ EvalEpoch
    \/ EvalFitnessReturn
    \/ Communication
    \/ AgentStep
    \/ StepReturn
    \/ Evaluate
    \/ TrialReturn
    \/ RunReturns
    \/ DemoRetry
    \/ DemoEnd

Spec == Init /\ [][Next]_vars

(***************************************************************************)
(* Agent.apply_outputs on its own: one agent, any heading of a sample of   *)
(* [0, 360), any sequence of calls with output vectors of a sample that    *)
(* holds the clamp, wrap and quantizer cases.                              *)
(***************************************************************************)
ApplyHeadings == { 0, 50, 3599 }
QuantizerSamples == { 0, 20, 50, 70, 90, 100 }
AngularSamples == { -450, -250, 50, 150, 350, 550 }
\* every sample on both message channels, the two channels never given the same value
QuantizerPairs ==
    { << 0, 20 >>, << 20, 50 >>, << 50, 70 >>, << 70, 90 >>, << 90, 100 >>, << 100, 0 >> }
UnitOutputs ==
    { << m, a, s[1], s[2] >> : m \in {0, 100}, a \in AngularSamples, s \in QuantizerPairs }

\* values passed as the mode argument of Agent.__init__
ModeArguments == { 0, 1, 2 }

InitApply ==
    /\ \E h \in ApplyHeadings, mode \in ModeArguments :
          envs = [ e \in {0, 1} |-> IF e = 0 THEN << Agent(LocationsStar[1], 0, h, 0, mode) >>
                                    ELSE << >> ]
    /\ evaluate_epochs = 0
    /\ fitness_threshold = FitDen
    /\ pc = "apply_outputs"
    /\ InitRest
    /\ InitDrawIdle

ApplyOutputsCall ==
    /\ pc = "apply_outputs"
    /\ \E outputs \in UnitOutputs :
          /\ envs' = [envs EXCEPT ![maze_env][1] = apply_outputs(@, outputs)]
          /\ last_outputs' = outputs
    /\ UNCHANGED << maze_env, evaluate_epochs, fitness_threshold, pc, caller, net, robot, i,
                    step_result, fitness, epochs_fitness, evals, best, solution_found,
                    tries, raw_fitness, consensus_at, consensus_state >>
    /\ UNCHANGED << comm_log, applied, last_inputs, seed, unseeded_draw, message,
                    bearing, radar_index >>
    /\ UNCHANGED draw_vars
    /\ UNCHANGED robot_orientation_list

SpecApply == InitApply /\ [][ApplyOutputsCall]_vars

(***************************************************************************)
(* Environment.consensus_verified on its own: any agent list of 1 to       *)
(* NumAgents agents with headings of a sample.                             *)
(***************************************************************************)
ConsensusHeadings == { 0, 20, 100, 149, 150, 3590 }

InitConsensus ==
    /\ \E n \in 1..NumAgents :
          \E headings \in [1..n -> ConsensusHeadings] :
             envs = [ e \in {0, 1} |->
                        IF e = 0 THEN Environment(SubSeq(LocationsStar, 1, n), headings)
                        ELSE << >> ]
    /\ evaluate_epochs = 0
    /\ fitness_threshold = FitDen
    /\ pc = "consensus_verified"
    /\ InitRest
    /\ InitDrawIdle

ConsensusVerifiedCall ==
    /\ pc = "consensus_verified"
    /\ step_result' = consensus_verified(agent_list)
    /\ pc' = "consensus_returned"
    /\ UNCHANGED << envs, maze_env, evaluate_epochs, fitness_threshold, caller, net, robot,
                    i, fitness, epochs_fitness, evals, best, solution_found, tries,
                    last_outputs, raw_fitness, consensus_at, consensus_state >>
    /\ UNCHANGED << comm_log, applied, last_inputs, seed, unseeded_draw, message,
                    bearing, radar_index >>
    /\ UNCHANGED draw_vars
    /\ UNCHANGED robot_orientation_list

SpecConsensus == InitConsensus /\ [][ConsensusVerifiedCall]_vars

(***************************************************************************)
(* Agent.find_radar_index on its own: any bearing of [0, 360) in tenths of *)
(* a degree.                                                               *)
(***************************************************************************)
Bearings == 0..(Full - 1)

InitRadar ==
    /\ envs = [ e \in {0, 1} |-> << >> ]
    /\ evaluate_epochs = 0
    /\ fitness_threshold = FitDen
    /\ pc = "find_radar_index"
    /\ maze_env = 0 /\ caller = "none" /\ net = 0 /\ robot = 1 /\ i = 0
    /\ step_result = FALSE /\ fitness = NoneVal /\ epochs_fitness = << >>
    /\ evals = 0 /\ best = [ net |-> 0, sum |-> NoneVal ]
    /\ solution_found = FALSE /\ tries = 0
    /\ last_outputs = << >> /\ raw_fitness = << >>
    /\ consensus_at = 0 /\ consensus_state = << >>
    /\ comm_log = << >> /\ applied = << >> /\ last_inputs = << >>
    /\ seed = NoneVal /\ unseeded_draw = FALSE /\ message = ""
    /\ bearing \in Bearings
    /\ radar_index = NoneVal
    /\ robot_orientation_list = NoRecorder
    /\ InitDrawIdle

FindRadarIndexCall ==
    /\ pc = "find_radar_index"
    /\ radar_index' = find_radar_index(bearing)
    /\ pc' = "radar_returned"
    /\ UNCHANGED << envs, maze_env, evaluate_epochs, fitness_threshold, caller, net, robot,
                    i, step_result, fitness, epochs_fitness, evals, best, solution_found,
                    tries, last_outputs, raw_fitness, consensus_at, consensus_state >>
    /\ UNCHANGED << comm_log, applied, last_inputs, seed, unseeded_draw, message, bearing >>
    /\ UNCHANGED draw_vars
    /\ UNCHANGED robot_orientation_list

SpecRadar == InitRadar /\ [][FindRadarIndexCall]_vars

(***************************************************************************)
(* consensus_visualize.py: draw_net, with the default node_names (a node   *)
(* is named str(key), so a key stands for its name). The genome and the    *)
(* configuration are the library's: input keys are negative, output keys   *)
(* count from 0, hidden keys follow; a connection gene has a key           *)
(* (in node, out node) and an enabled flag.                                *)
(***************************************************************************)
MaxHidden == 2          \* hidden nodes of the genome
MaxConnections == 3     \* connection genes of the genome

\* config.genome_config.input_keys, output_keys
InputKeys == { -1 }
OutputKeys == { 0 }
HiddenKeys == 1..MaxHidden

\* genome.nodes.keys(): the output and the hidden nodes
GenomeNodes == OutputKeys \cup HiddenKeys

\* the keys a connection gene can have: into a hidden or an output node, from
\* any other node
ConnectionKeys ==
    { key \in (InputKeys \cup GenomeNodes) \X GenomeNodes : key[1] # key[2] }

\* "if cg.enabled or show_disabled": the pairs (in node, out node) considered
connections(genes, with_disabled) ==
    { cg.key : cg \in { g \in genes : g.enabled \/ with_disabled } }

InitDraw ==
    /\ envs = [ e \in {0, 1} |-> << >> ]
    /\ evaluate_epochs = 0
    /\ fitness_threshold = FitDen
    /\ pc = "draw_net"
    /\ InitRest
    /\ \E keys \in SUBSET ConnectionKeys :
          /\ Cardinality(keys) <= MaxConnections
          /\ \E enabled \in [keys -> BOOLEAN] :
                genome = { [ key |-> k, enabled |-> enabled[k] ] : k \in keys }
    /\ show_disabled \in BOOLEAN
    /\ prune_unused \in BOOLEAN
    /\ used_nodes = {}
    /\ pending = {}
    /\ dot = [ nodes |-> {}, edges |-> {} ]

draw_frame ==
    UNCHANGED << envs, maze_env, evaluate_epochs, fitness_threshold, caller, net, robot, i,
                 step_result, fitness, epochs_fitness, evals, best, solution_found, tries,
                 last_outputs, raw_fitness, consensus_at, consensus_state, comm_log,
                 applied, last_inputs, seed, unseeded_draw, message, bearing, radar_index,
                 robot_orientation_list, genome, show_disabled, prune_unused >>

\* draw_net: the input and the output nodes are declared; used_nodes and
\* pending start as copies of outputs, or used_nodes is every node of the genome
DrawNetDeclare ==
    /\ pc = "draw_net"
    /\ dot' = [dot EXCEPT !.nodes = InputKeys \cup OutputKeys]
    /\ IF prune_unused
       THEN /\ used_nodes' = OutputKeys
            /\ pending' = OutputKeys
            /\ pc' = "while_pending"
       ELSE /\ used_nodes' = GenomeNodes
            /\ pending' = {}
            /\ pc' = "draw_nodes"
    /\ draw_frame

\* draw_net: one iteration of "while pending"
DrawNetPrune ==
    /\ pc = "while_pending"
    /\ LET new_pending == { key[1] : key \in { c \in connections(genome, show_disabled) :
                                                  c[2] \in pending /\ c[1] \notin used_nodes } }
       IN  /\ used_nodes' = used_nodes \cup new_pending
           /\ pending' = new_pending
           /\ pc' = IF new_pending # {} THEN "while_pending" ELSE "draw_nodes"
    /\ UNCHANGED dot
    /\ draw_frame

\* draw_net: "for n in used_nodes", the nodes that are neither input nor output
DrawNetNodes ==
    /\ pc = "draw_nodes"
    /\ dot' = [dot EXCEPT !.nodes = @ \cup (used_nodes \ (InputKeys \cup OutputKeys))]
    /\ pc' = "draw_edges"
    /\ UNCHANGED << used_nodes, pending >>
    /\ draw_frame

\* draw_net: "for cg in genome.connections.values()", an edge for every gene
\* that is enabled or shown; the test against used_nodes is commented out
DrawNetEdges ==
    /\ pc = "draw_edges"
    /\ dot' = [dot EXCEPT !.edges = { cg.key : cg \in { g \in genome :
                                                         g.enabled \/ show_disabled } }]
    /\ pc' = "rendered"
    /\ UNCHANGED << used_nodes, pending >>
    /\ draw_frame

SpecDraw ==
    InitDraw /\ [][DrawNetDeclare \/ DrawNetPrune \/ DrawNetNodes \/ DrawNetEdges]_vars

(***************************************************************************)
(* Properties                                                              *)
(***************************************************************************)
Occupied(self) == { k \in 1..Len(self.radar) : self.radar[k] # NoneVal }
Agents(e) == { envs[e][k] : k \in 1..Len(envs[e]) }
Headings(e) == { a.heading : a \in Agents(e) }

\* C1: after any update_radar call, in any state reached by simulation steps,
\* at most one slot of an agent's radar register is non-empty.
C1_AtMostOneRadarSlot ==
    \A e \in {0, 1} : \A a \in Agents(e) : Cardinality(Occupied(a)) <= 1

\* C2: a heading that starts in [0, 360) stays in [0, 360) after any sequence
\* of apply_outputs calls, whatever the output vectors.
C2_HeadingInRange ==
    \A a \in Agents(0) : 0 <= a.heading /\ a.heading < Full

\* a call whose increment of +30 degrees took the heading past 360 and wrapped it
C2_Witness ==
    /\ pc = "apply_outputs"
    /\ last_outputs # << >> /\ last_outputs[2] = 550
    /\ \E a \in Agents(0) : a.heading = 299

\* C3: after apply_outputs the angular velocity is outputs[1] - 0.5 clamped to
\* [-3.0, 3.0] (5.0 gives exactly 3.0, -5.0 exactly -3.0), so it always lies in
\* [-3.0, 3.0].
C3_AngularVelClamped ==
    \A a \in Agents(0) :
       /\ -300 <= a.angular_vel /\ a.angular_vel <= 300
       /\ last_outputs # << >> =>
             LET raw == last_outputs[2] - 50
             IN  /\ a.angular_vel = IF raw > 300 THEN 300 ELSE IF raw < -300 THEN -300 ELSE raw
                 /\ raw = 500 => a.angular_vel = 300
                 /\ raw = -500 => a.angular_vel = -300

\* a raw candidate of 5.0 stored as 3.0
C3_Witness ==
    /\ pc = "apply_outputs"
    /\ last_outputs # << >> /\ last_outputs[2] - 50 = 500
    /\ \E a \in Agents(0) : a.angular_vel = 300

\* the quantizer tables, output value (hundredths) to message (thirds)
ClaimedQuantizerTable == [ x \in QuantizerSamples |->
    CASE x = 0 -> 0 [] x = 20 -> 0 [] x = 50 -> 1 [] x = 70 -> 2 [] x = 90 -> 3 [] x = 100 -> 3 ]
AmendedQuantizerTable == [ x \in QuantizerSamples |->
    CASE x = 0 -> 0 [] x = 20 -> 1 [] x = 50 -> 2 [] x = 70 -> 2 [] x = 90 -> 3 [] x = 100 -> 3 ]

\* C4 as stated: outputs 0.0, 0.2, 0.5, 0.7, 0.9, 1.0 are quantized to
\* 0, 0, 1/3, 2/3, 1, 1, for msg_sen_1 (outputs[2]) and msg_sen_2 (outputs[3]) alike.
C4_QuantizerAsClaimed ==
    last_outputs # << >> =>
       \A a \in Agents(0) :
          /\ a.msg_sen_1 = ClaimedQuantizerTable[last_outputs[3]]
          /\ a.msg_sen_2 = ClaimedQuantizerTable[last_outputs[4]]

\* C4 amended: outputs 0.0, 0.2, 0.5, 0.7, 0.9, 1.0 are quantized to
\* 0, 1/3, 2/3, 2/3, 1, 1, for msg_sen_1 (outputs[2]) and msg_sen_2 (outputs[3]) alike.
C4_QuantizerAmended ==
    last_outputs # << >> =>
       \A a \in Agents(0) :
          /\ a.msg_sen_1 = AmendedQuantizerTable[last_outputs[3]]
          /\ a.msg_sen_2 = AmendedQuantizerTable[last_outputs[4]]

\* outputs[2] = 0.2 stored as 1/3 and outputs[3] = 0.5 stored as 2/3
C4_Witness ==
    /\ last_outputs # << >> /\ last_outputs[3] = 20 /\ last_outputs[4] = 50
    /\ \E a \in Agents(0) : a.msg_sen_1 = 1 /\ a.msg_sen_2 = 2

\* C5: consensus_verified() is true exactly when the greatest raw heading minus
\* the least is below 5 degrees, without wraparound: {10, 14.9} true,
\* {10, 15.0} false, {359, 2} false.
C5_ConsensusIsRawSpread ==
    pc = "consensus_returned" =>
       /\ step_result = (Max(Headings(0)) - Min(Headings(0)) < 50)
       /\ Headings(0) = {100, 149} => step_result = TRUE
       /\ Headings(0) = {100, 150} => step_result = FALSE
       /\ Headings(0) = {3590, 20} => step_result = FALSE

\* the call on headings 359 and 2 has returned false
C5_Witness ==
    /\ pc = "consensus_returned"
    /\ Len(envs[0]) = 2 /\ envs[0][1].heading = 3590 /\ envs[0][2].heading = 20
    /\ step_result = FALSE

StepRunning == pc \in { "communication", "agents", "verify" }

\* C6: once consensus_verified() held at the end of step k of a trial, no more
\* step of that trial runs; the trial returns 1.0 after exactly k steps with the
\* agents as they were at the end of step k.
C6_EarlyTermination ==
    /\ StepRunning => consensus_at = 0
    /\ (pc = "trial_return" /\ consensus_at # 0) =>
          /\ fitness = FitDen
          /\ i = consensus_at
          /\ agent_list = consensus_state

\* a trial that returns 1.0 after its first step, with steps left in the budget
C6_Witness ==
    /\ pc = "trial_return"
    /\ consensus_at = 1 /\ i = 1 /\ i < TimeSteps
    /\ fitness = FitDen

\* C7: the value returned by consensus_simulation_evaluate lies in [0.01, 1.0]:
\* 1.0 on consensus, otherwise env.fitness() when above 0.01 and 0.01 when not.
C7_TrialResultFloored ==
    pc = "trial_return" =>
       /\ FitDen <= 100 * fitness /\ fitness <= FitDen
       /\ consensus_at # 0 => fitness = FitDen
       /\ raw_fitness # << >> =>
             fitness = IF 100 * raw_fitness[1] > FitDen THEN raw_fitness[1]
                       ELSE FitDen \div 100

\* a trial whose aggregate fitness is negative returns 0.01
C7_Witness ==
    /\ pc = "trial_return"
    /\ raw_fitness # << >> /\ raw_fitness[1] < 0
    /\ fitness = FitDen \div 100

\* C8: an agent with no other agent within range makes its communication a
\* no-op; the trial is not aborted.
C8_NoSenderIsNoOp ==
    ~(pc = "aborted" /\ robots_in_range(agent_list, robot) = << >>)

TrialStarts == pc = "communication" /\ i = 0 /\ robot = 1

\* C9: every trial run by eval_fitness starts from agents equal to those of the
\* original environment.
C9_EveryTrialStartsFromOriginal ==
    (TrialStarts /\ caller = "eval") => envs[maze_env] = envs[0]

\* C10: the original environment, once built, is never changed.
C10_OriginalNeverMutated == [][envs[0] # << >> => envs'[0] = envs[0]]_vars

\* the demonstration has run and changed its copy, which now differs from the original
C10_Witness ==
    /\ pc = "done" /\ solution_found
    /\ envs[1] # << >> /\ envs[1] # envs[0]

\* C11: for every bearing b in [0, 360) find_radar_index(b) returns one index of
\* 0..7: the first sector in table order whose bounds strictly contain b, and 0
\* when no sector does (a boundary such as 15.0, or b in [0, 15), which only the
\* wrapped sector [345, 375) covers).
C11_FirstStrictSectorElseZero ==
    pc = "radar_returned" =>
       LET containing == { k \in 0..7 : radar_angle[k + 1][1] < bearing
                                        /\ bearing < radar_angle[k + 1][2] }
       IN  /\ radar_index \in 0..7
           /\ containing # {} =>
                 /\ radar_index \in containing
                 /\ \A k \in containing : radar_index <= k
           /\ containing = {} => radar_index = 0
           /\ bearing \in { 150, 450, 900, 1500, 2100, 2700, 3150, 3450 } => radar_index = 0
           /\ bearing < 150 => radar_index = 0
           /\ (2100 < bearing /\ bearing < 2700) => radar_index = 5
           /\ 3450 < bearing => radar_index = 0

\* the call on the boundary 15.0 has returned 0
C11_Witness ==
    /\ pc = "radar_returned"
    /\ bearing = 150
    /\ radar_index = 0

\* C12: in the demonstration run of run_experiment every attempt, the first and
\* every retry, starts on a fresh deep copy of the starting environment, that is
\* on agents equal to the original's.
C12_EveryDemoTrialOnFreshCopy ==
    (TrialStarts /\ caller \in { "demo", "retry" }) => envs[maze_env] = envs[0]

\* C13: after the demonstration loop "No successful run was found" is printed
\* exactly when the fitness of the last trial run is below the threshold, and
\* "Successful run found" exactly when it reached the threshold, a success on
\* the last permitted retry included.
C13_MessageMatchesLastTrial ==
    (pc = "done" /\ solution_found) =>
       /\ message = "No successful run was found" <=> fitness < fitness_threshold
       /\ message = "Successful run found" <=> fitness >= fitness_threshold

\* C14: the random module is seeded before any random draw of the run, the
\* draws of the environment's placements and headings in particular.
C14_SeededBeforeAnyDraw == ~unseeded_draw

LastCall == comm_log[Len(comm_log)]

\* C15: an update_radar call sets the receiver's held messages by the sender's
\* mode at the moment of the call: from a sender in mode 0 (relay) they become
\* the sender's msg_rcv_1 and msg_rcv_2, from a sender in mode 1 (emission) the
\* sender's msg_sen_1 and msg_sen_2; the sender is left as it was.
C15_MessagesBySenderMode ==
    [][ Len(comm_log') = Len(comm_log) + 1 =>
          LET call     == comm_log'[Len(comm_log')]
              sender   == envs[maze_env][call.sender]
              receiver == envs'[maze_env][call.receiver]
          IN  /\ sender.mode = 0 =>
                    /\ receiver.msg_rcv_1 = sender.msg_rcv_1
                    /\ receiver.msg_rcv_2 = sender.msg_rcv_2
              /\ sender.mode = 1 =>
                    /\ receiver.msg_rcv_1 = sender.msg_sen_1
                    /\ receiver.msg_rcv_2 = sender.msg_sen_2
              /\ envs'[maze_env][call.sender] = sender ]_vars

\* the last call of the running round relayed the held messages of a sender in
\* mode 0, which differ from the messages that sender emits
C15_Witness ==
    /\ pc \in { "communication", "agents" } /\ applied = << >> /\ comm_log # << >>
    /\ LET sender   == agent_list[LastCall.sender]
           receiver == agent_list[LastCall.receiver]
       IN  /\ sender.mode = 0
           /\ sender.msg_rcv_1 # NoneVal
           /\ sender.msg_rcv_1 # sender.msg_sen_1
           /\ receiver.msg_rcv_1 = sender.msg_rcv_1
           /\ receiver.msg_rcv_2 = sender.msg_rcv_2

\* the bearing of the receiver seen from the sender: the angle of the vector
\* from the sender's location to the receiver's
BearingFromTo(sender, receiver) ==
    PointAngle(receiver.location.x - sender.location.x,
               receiver.location.y - sender.location.y)

\* C16: update_radar writes the slot find_radar_index(r), r being the bearing
\* from the sender's location to the receiver's minus the receiver's own heading
\* (bearing - heading), and stores there sender.calculate_msg_to(receiver).
\* Stated on the calls of a communication round, during which no heading changes.
C16_SlotIsBearingMinusHeading ==
    pc = "communication" =>
       \A n \in 1..Len(comm_log) :
          LET sender   == agent_list[comm_log[n].sender]
              receiver == agent_list[comm_log[n].receiver]
              r        == BearingFromTo(sender, receiver) - receiver.heading
          IN  /\ comm_log[n].slot = find_radar_index(r)
              /\ receiver.radar[find_radar_index(r) + 1] = calculate_msg_to(sender, receiver)

\* C17: in every step the second and third components of an agent's input
\* vector are the sector bearing and the received value of the slot written by
\* that same step's update_radar call on the agent, not of an earlier step's.
C17_InputsFromThisStep ==
    (pc \in { "agents", "verify" } /\ applied # << >>) =>
       LET call == comm_log[applied[Len(applied)]]
       IN  /\ last_inputs[2] = radar_position[call.slot + 1]
           /\ last_inputs[3] = call.value

\* C18: in one communication() round in which every agent has a neighbour in
\* range, update_radar is called exactly once on every agent, in agent list
\* order, each time with a sender that is another agent (its agent_id differs)
\* at a distance of at most 80.
C18_OneUpdatePerAgentInOrder ==
    /\ pc = "communication" => Len(comm_log) = robot - 1
    /\ pc \in { "agents", "verify" } => Len(comm_log) = Len(agent_list)
    /\ \A n \in 1..Len(comm_log) :
          /\ comm_log[n].receiver = n
          /\ agent_list[comm_log[n].sender].agent_id # agent_list[n].agent_id
          /\ WithinDistance(agent_list[n].location,
                            agent_list[comm_log[n].sender].location, 80)

\* a round is complete in which the second agent, in range of both others,
\* took the third as its sender
C18_Witness ==
    /\ pc = "agents" /\ applied = << >>
    /\ Len(comm_log) = NumAgents
    /\ comm_log[2].sender = 3

\* C19: within one step communication is complete for all agents before any
\* agent's apply_outputs; the agents are then handled in list order; and
\* consensus_verified() is evaluated only after the last agent was updated.
C19_StepOrder ==
    /\ pc = "communication" => applied = << >>
    /\ applied # << >> => Len(comm_log) = Len(agent_list)
    /\ \A n \in 1..Len(applied) : applied[n] = n
    /\ pc = "agents" => Len(applied) = robot - 1
    /\ pc = "verify" => Len(applied) = Len(agent_list)

\* every agent of the step has been updated, in order; consensus_verified() is next
C19_Witness ==
    /\ pc = "verify"
    /\ Len(comm_log) = NumAgents
    /\ applied = [n \in 1..NumAgents |-> n]

TrialRunning == pc \in { "communication", "agents", "verify", "evaluate", "trial_return" }

\* a measure of what the demonstration has left to do: the steps left in the
\* running trial, and a whole trial for every retry still permitted
StepLen == 2 * NumAgents + 2
TrialLen == TimeSteps * StepLen + 3
LocalRank ==
    CASE pc = "demo_while"    -> 1
      [] pc = "trial_return"  -> 2
      [] pc = "evaluate"      -> (TimeSteps - i) * StepLen + 3
      [] pc = "communication" -> (TimeSteps - i) * StepLen - (robot - 1) + 2
      [] pc = "agents"        -> (TimeSteps - i) * StepLen - NumAgents - (robot - 1) + 2
      [] pc = "verify"        -> (TimeSteps - i) * StepLen - 2 * NumAgents + 2
      [] OTHER                -> 0
RetriesLeft ==
    evaluate_epochs - tries - (IF TrialRunning /\ caller = "retry" THEN 1 ELSE 0)
DemoVariant == RetriesLeft * TrialLen + LocalRank

\* C20: when a solution was found the demonstration loop terminates, for every
\* non-negative value of epochs: it makes no retry once a trial's fitness has
\* reached the threshold, and at most epochs retries otherwise (at most
\* epochs + 1 trials in all). Termination: every step of the demonstration
\* lowers a measure that is never negative.
C20_DemoLoopTerminates ==
    /\ [](solution_found => (RetriesLeft >= 0 /\ DemoVariant >= 0))
    /\ [][solution_found => DemoVariant' < DemoVariant]_vars
    /\ [][(pc = "demo_while" /\ fitness >= fitness_threshold) => pc' = "done"]_vars

\* the loop was left with the budget of retries used up and no trial above the threshold
C20_Witness ==
    /\ pc = "done" /\ solution_found
    /\ evaluate_epochs > 0 /\ tries = evaluate_epochs
    /\ fitness < fitness_threshold

\* a demonstration trial of run_experiment, which supplies the recorder
Recording == robot_orientation_list # NoRecorder

\* C21: with a recorder supplied, every executed step appends the heading an
\* agent has after apply_outputs to that agent's sequence, once: while a
\* demonstration trial runs, each sequence holds one entry for each of the i
\* completed steps, one more for an agent already updated in the running step,
\* and its last entry is the agent's heading; when the trial returns all
\* sequences have the length i, at least 1 and at most time_steps. The
\* recording is not touched between the return of the last attempt and the
\* calls of animate_experiment and plot_headings, so that it holds the steps
\* of that attempt alone.
C21_RecorderHoldsLastTrial ==
    /\ []((Recording /\ solution_found /\ (TrialRunning \/ pc = "aborted")) =>
             \A k \in 1..Len(agent_list) :
                LET recorded == robot_orientation_list[k]
                    updated  == IF \E a \in 1..Len(applied) : applied[a] = k THEN 1 ELSE 0
                IN  /\ Len(recorded) = i + updated
                    /\ Len(recorded) <= TimeSteps
                    /\ Len(recorded) > 0 => recorded[Len(recorded)] = agent_list[k].heading)
    /\ []((Recording /\ pc = "trial_return") => i \in 1..TimeSteps)
    /\ []((~Recording /\ TrialRunning) => caller = "eval")
    /\ [][(Recording /\ solution_found /\ pc \in {"trial_return", "demo_while"}
                    /\ pc' \in {"demo_while", "done"})
             => robot_orientation_list' = robot_orientation_list]_vars

\* a second demonstration attempt has returned after its full number of steps:
\* the recording holds time_steps entries an agent, not those of both attempts
C21_Witness ==
    /\ pc = "done"
    /\ solution_found
    /\ tries >= 1
    /\ \A k \in 1..Len(agent_list) : Len(robot_orientation_list[k]) = TimeSteps

\* C22: an agent has mode 1 after construction whatever mode argument was
\* passed, and apply_outputs, the only operation that assigns mode, leaves it
\* 0 or 1: the mode update_radar reads from a sender is always 0 or 1.
C22_ModeIsZeroOrOne ==
    pc = "apply_outputs" =>
       \A k \in 1..Len(agent_list) :
          /\ agent_list[k].mode \in {0, 1}
          /\ last_outputs = << >> => agent_list[k].mode = 1
          /\ last_outputs # << >> => agent_list[k].mode = new_mode(last_outputs)

\* apply_outputs has switched the agent to mode 0
C22_Witness ==
    /\ pc = "apply_outputs"
    /\ last_outputs # << >>
    /\ agent_list[1].mode = 0

\* the attributes of an agent other than those of the set changed
FrameOf(a, changed) ==
    [ f \in (DOMAIN a) \ changed |-> a[f] ]

\* C23: no operation of the simulation changes an agent's location or
\* agent_id: every agent of every environment, original or copy, is where the
\* original environment placed it. An update_radar call changes nothing but
\* the receiver's radar, msg_rcv_1 and msg_rcv_2; the sender and every other
\* agent are as before. An apply_outputs call changes nothing but the agent's
\* mode, angular_vel, heading, msg_sen_1 and msg_sen_2.
C23_Frames ==
    /\ [](\A e \in DOMAIN envs : \A k \in 1..Len(envs[e]) :
             /\ envs[e][k].location = envs[0][k].location
             /\ envs[e][k].agent_id = k - 1)
    /\ [][ Len(comm_log') = Len(comm_log) + 1 =>
             LET call == comm_log'[Len(comm_log')]
             IN  /\ \A k \in 1..Len(agent_list) :
                       k # call.receiver => envs'[maze_env][k] = envs[maze_env][k]
                 /\ FrameOf(envs'[maze_env][call.receiver],
                            {"radar", "msg_rcv_1", "msg_rcv_2"})
                      = FrameOf(envs[maze_env][call.receiver],
                                {"radar", "msg_rcv_1", "msg_rcv_2"})
                 /\ envs'[1 - maze_env] = envs[1 - maze_env] ]_vars
    /\ [][ Len(applied') = Len(applied) + 1 =>
             LET k == applied'[Len(applied')]
                 changed == {"mode", "angular_vel", "heading", "msg_sen_1", "msg_sen_2"}
             IN  /\ \A j \in 1..Len(agent_list) :
                       j # k => envs'[maze_env][j] = envs[maze_env][j]
                 /\ FrameOf(envs'[maze_env][k], changed) = FrameOf(envs[maze_env][k], changed)
                 /\ envs'[1 - maze_env] = envs[1 - maze_env] ]_vars

\* every agent of the step has been updated by both operations: its radar and
\* held messages were written by update_radar, then apply_outputs turned it
C23_Witness ==
    /\ pc = "verify"
    /\ \A k \in 1..Len(agent_list) :
          /\ HasSignal(agent_list[k])
          /\ agent_list[k].msg_rcv_1 # NoneVal
          /\ agent_list[k].angular_vel # 0

\* C24: in a step whose communication() has completed, every agent has an
\* occupied radar slot when create_net_inputs is called on it: the loop over
\* the agents is entered with a signal on every radar, and the program never
\* stops in create_net_inputs (a stop with all update_radar calls of the
\* round made).
C24_InputsOnlyWithSignal ==
    /\ pc \in {"agents", "verify"} =>
          /\ Len(comm_log) = Len(agent_list)
          /\ \A k \in 1..Len(agent_list) : HasSignal(agent_list[k])
    /\ pc = "aborted" => Len(comm_log) < Len(agent_list)

\* the first communication() of a trial has completed and create_net_inputs is
\* about to be called on the first agent
C24_Witness ==
    /\ pc = "agents"
    /\ i = 0 /\ robot = 1
    /\ Len(comm_log) = NumAgents
    /\ HasSignal(agent_list[1])

\* the two-valued messages 0, 1/3, 2/3, 1, in thirds
MessageValues == 0..3

\* both held messages of every agent of the list are message values
HoldsMessages(agents) ==
    \A k \in 1..Len(agents) :
       agents[k].msg_rcv_1 \in MessageValues /\ agents[k].msg_rcv_2 \in MessageValues

\* C25: once the first communication() round of an environment has completed,
\* no agent of it holds None in msg_rcv_1 or msg_rcv_2, and both are one of
\* 0, 1/3, 2/3, 1, whatever senders the later rounds draw: in the running
\* trial from the end of its first round on, and in every environment all of
\* whose agents have been receivers (their radars hold a signal), through the
\* later steps and trials run on it.
C25_MessagesHeldAfterFirstRound ==
    /\ (TrialRunning /\ (pc # "communication" \/ i >= 1)) => HoldsMessages(agent_list)
    /\ \A e \in DOMAIN envs :
          (envs[e] # << >> /\ \A k \in 1..Len(envs[e]) : HasSignal(envs[e][k]))
             => HoldsMessages(envs[e])

\* in the last round a relaying sender passed on a message that had been
\* emitted in an earlier step
C25_Witness ==
    /\ pc = "agents" /\ applied = << >>
    /\ i >= 1
    /\ agent_list[LastCall.sender].mode = 0
    /\ agent_list[LastCall.receiver].msg_rcv_1 \in 1..3

\* msg_rcv_1 and msg_rcv_2 of the agent at position k of the running round's
\* environment, as a pair
Held(k) == << agent_list[k].msg_rcv_1, agent_list[k].msg_rcv_2 >>

\* the same pair as it was when the running communication() round began
HeldAtRoundStart(k) ==
    IF k <= Len(comm_log) THEN comm_log[k].held ELSE Held(k)

\* C26: communication() updates the agents one after the other in list order,
\* each call reading the senders as they are at that moment. Until the first
\* apply_outputs of the step, a receiver n whose sender j was in relay mode
\* holds, when j stands earlier in the list, the messages j itself received
\* in this round (from an emitting sender of j, that sender's outgoing
\* messages: two hops in one round), and when j stands later in the list, the
\* messages j held when the round began, whatever j received afterwards.
C26_SequentialRound ==
    (pc \in {"communication", "agents"} /\ applied = << >>) =>
       \A n \in 1..Len(comm_log) :
          LET j == comm_log[n].sender
          IN  agent_list[j].mode = 0 =>
                 /\ j < n =>
                       /\ Held(n) = Held(j)
                       /\ agent_list[comm_log[j].sender].mode = 1 =>
                             Held(n) = << agent_list[comm_log[j].sender].msg_sen_1,
                                          agent_list[comm_log[j].sender].msg_sen_2 >>
                 /\ j > n => Held(n) = HeldAtRoundStart(j)

\* a receiver took a relaying sender that stands earlier in the list and had
\* just received, in the same round, messages other than those it held when
\* the round began: the receiver holds the new ones
C26_Witness ==
    /\ pc \in {"communication", "agents"} /\ applied = << >>
    /\ \E n \in 1..Len(comm_log) :
          LET j == comm_log[n].sender
          IN  /\ agent_list[j].mode = 0
              /\ j < n
              /\ agent_list[comm_log[j].sender].mode = 1
              /\ Held(j) # HeldAtRoundStart(j)
              /\ Held(n) = Held(j)

\* the nodes from which an output node is reached along considered
\* connections: the ends of the paths of at most one node per genome node
BackwardReachable ==
    LET nodes == InputKeys \cup GenomeNodes
        considered == connections(genome, show_disabled)
    IN  { n \in nodes :
            \E len \in 1..Cardinality(nodes) :
               \E path \in [1..len -> nodes] :
                  /\ path[1] = n
                  /\ path[len] \in OutputKeys
                  /\ \A s \in 1..(len - 1) : << path[s], path[s + 1] >> \in considered }

\* the hidden nodes that appear in the rendered graph, declared or as the end
\* of an edge
RenderedHidden ==
    { n \in HiddenKeys : n \in dot.nodes \/ \E e \in dot.edges : e[1] = n \/ e[2] = n }

\* C27: with prune_unused, used_nodes is exactly the set of nodes from which an
\* output is reached backward through the considered connections, and the
\* rendered graph has no hidden node outside used_nodes, neither declared nor
\* as the end of a drawn edge.
C27_PrunedGraphShowsOnlyUsedNodes ==
    (pc = "rendered" /\ prune_unused) =>
       /\ used_nodes = BackwardReachable
       /\ RenderedHidden \subseteq used_nodes

\* the part of C27 that the code does satisfy: used_nodes is the backward
\* reachable set and no hidden node outside it is declared
PrunedNodesDeclared ==
    (pc = "rendered" /\ prune_unused) =>
       /\ used_nodes = BackwardReachable
       /\ (dot.nodes \cap HiddenKeys) \subseteq used_nodes


====
